---- MODULE Spec2Model ----
(***************************************************************************)
(* Date-partitioned trip ingestion of arsalann/nyc_cabs.                   *)
(*                                                                         *)
(* Two entry points are modelled side by side:                             *)
(*   variant = "tier_1"     src/assets/tier_1/ingest_trips.py              *)
(*   variant = "ingestion"  src/nyc/assets/ingestion/ingest_trips_python.py*)
(*                                                                         *)
(* A run is: resolve the inputs, parse the two dates, walk the months,     *)
(* fetch one parquet file per (taxi type, month), combine.                 *)
(***************************************************************************)
EXTENDS Integers, Sequences, FiniteSets, TLC

VARIABLES
    variant,        \* which entry point runs
    args,           \* materialize(start_date=None, end_date=None, ...)
    kwargs,         \* **kwargs of materialize
    environ,        \* os.environ
    pc,             \* position of the run
    error,          \* the exception that left materialize, "" when none
    start_date_str, \* resolved start string
    end_date_str,   \* resolved end string
    taxi_types,     \* resolved categories, in loop order
    start_date,     \* parsed start (a datetime)
    end_date,       \* parsed end (a datetime)
    current,        \* the walking first-of-month datetime
    months,         \* list of (year, month) tuples
    ti,             \* index of the taxi type being fetched
    mi,             \* index of the month being fetched
    now,            \* the wall clock
    run_start,      \* the wall clock when materialize was entered
    attempts,       \* history: one record per fetch attempt
    all_dataframes, \* tables collected for the combiner
    df,             \* the table being normalized
    result          \* the table materialize returned

vars == <<variant, args, kwargs, environ, pc, error, start_date_str,
          end_date_str, taxi_types, start_date, end_date, current, months,
          ti, mi, now, run_start, attempts, all_dataframes, df, result>>

----------------------------------------------------------------------------
(* Bounds of the model.                                                    *)

NumYears == 2
MaxTod == 1
MaxRows == 1
MaxCols == 2

Years == 2021 .. (2021 + NumYears - 1)
MonthMenu == {1, 6, 12}
DayMenu == {1, 15}

----------------------------------------------------------------------------
(* Values a parameter, a keyword argument or an environment variable holds. *)

None == [form |-> "None"]
Absent == [form |-> "absent"]
Empty == [form |-> "empty"]

Text(s) == [form |-> "text", text |-> s]

\* "YYYY-MM-DD"
DateStr(y, m, d) == [form |-> "date", year |-> y, month |-> m, day |-> d, tod |-> 0]
\* "YYYY-MM-DDTHH:MM:SS"
DateTimeStr(y, m, d, t) == [form |-> "datetime", year |-> y, month |-> m, day |-> d, tod |-> t]
\* "YYYY-MM-DDTHH:MM:SSZ"
DateTimeZStr(y, m, d, t) == [form |-> "datetime_z", year |-> y, month |-> m, day |-> d, tod |-> t]

\* "YYYY-MM-DD.junk": a date followed by a dot and text that is no fraction
DateJunkStr(y, m, d) == [form |-> "date_junk", year |-> y, month |-> m, day |-> d, tod |-> 0]
\* text that holds no date, such as "soon"
Malformed == [form |-> "malformed"]

IsDateString(v) == v.form \in {"date", "datetime", "datetime_z"}

\* Python truthiness of a str-or-None value
Truthy(v) == v.form \notin {"None", "absent", "empty"}

\* a or b
Or(a, b) == IF Truthy(a) THEN a ELSE b

\* os.environ.get(name)
EnvGet(name) == IF environ[name] = Absent THEN None ELSE environ[name]

\* kwargs.get(name)
KwGet(name) == IF kwargs[name] = Absent THEN None ELSE kwargs[name]

\* kwargs.get(name, default)
KwGetDefault(name, default) == IF kwargs[name] = Absent THEN default ELSE kwargs[name]

----------------------------------------------------------------------------
(* datetime                                                                *)

DateTime(y, m, d, t, a) == [year |-> y, month |-> m, day |-> d, tod |-> t, aware |-> a]

NoDate == DateTime(0, 0, 0, 0, FALSE)

\* a <= b on two datetimes of the same awareness
DateTimeLeq(a, b) ==
    \/ a.year < b.year
    \/ a.year = b.year /\ a.month < b.month
    \/ a.year = b.year /\ a.month = b.month /\ a.day < b.day
    \/ a.year = b.year /\ a.month = b.month /\ a.day = b.day /\ a.tod <= b.tod

\* comparing an offset-naive with an offset-aware datetime raises TypeError
Comparable(a, b) == a.aware = b.aware

\* dt.replace(day=1)
ReplaceDay1(dt) == [dt EXCEPT !.day = 1]

\* datetime.strptime(s, "%Y-%m-%d")
StrptimeOk(s) == s.form = "date"
Strptime(s) == DateTime(s.year, s.month, s.day, 0, FALSE)

\* datetime.fromisoformat(clean.replace('T', ' ').split('.')[0])
\* split('.')[0] drops whatever follows the first dot before the text is parsed
FromIsoOk(s) == IsDateString(s) \/ s.form = "date_junk"
FromIso(s) == DateTime(s.year, s.month, s.day,
                       IF s.form = "date" THEN 0 ELSE s.tod,
                       s.form = "datetime_z")

\* current += relativedelta(months=1)
AddOneMonth(dt) ==
    LET total == dt.month + 1
    IN  [dt EXCEPT !.year = dt.year + ((total - 1) \div 12),
                   !.month = ((total - 1) % 12) + 1]

\* a slip: the December branch bumps the year and forgets month=1
MoveToNextMonthKeepsDecember(dt) ==
    IF dt.month = 12
    THEN [dt EXCEPT !.year = dt.year + 1]
    ELSE [dt EXCEPT !.month = dt.month + 1]

\* the if / else of generate_month_range that moves to the next month
MoveToNextMonth(dt) ==
    IF dt.month = 12
    THEN [dt EXCEPT !.year = dt.year + 1, !.month = 1]
    ELSE [dt EXCEPT !.month = dt.month + 1]

\* a slip: while current < end
Tier1LoopCondStrict(cur, end) == DateTimeLeq(cur, end) /\ cur # end

\* while current <= end            (generate_month_range)
Tier1LoopCond(cur, end) == DateTimeLeq(cur, end)

\* a slip: the walk compares the years only
IngestionLoopCondByYear(cur, end) == cur.year <= end.year

\* while current <= end_month      (ingestion materialize)
IngestionLoopCond(cur, end) == DateTimeLeq(cur, ReplaceDay1(end))

RECURSIVE IngestionMonthsFrom(_, _)
\* the whole loop of lines 87-89, from cur on
IngestionMonthsFrom(cur, end) ==
    IF IngestionLoopCond(cur, end)
    THEN <<<<cur.year, cur.month>>>> \o IngestionMonthsFrom(AddOneMonth(cur), end)
    ELSE <<>>

RECURSIVE Tier1MonthsFrom(_, _)
\* the whole loop of lines 41-47, from cur on
Tier1MonthsFrom(cur, end) ==
    IF Tier1LoopCond(cur, end)
    THEN <<<<cur.year, cur.month>>>> \o Tier1MonthsFrom(MoveToNextMonth(cur), end)
    ELSE <<>>

\* generate_month_range(start_date, end_date) on two YYYY-MM-DD strings
generate_month_range(s, e) == Tier1MonthsFrom(ReplaceDay1(Strptime(s)), Strptime(e))

----------------------------------------------------------------------------
(* Resolution of the inputs.                                               *)

EnvNames == {"START_DATE", "start_date", "END_DATE", "end_date", "taxi_type",
             "BRUIN_START_DATE", "BRUIN_END_DATE", "BRUIN_VARS"}
KwNames == {"start_date", "START_DATE", "end_date", "END_DATE", "taxi_type"}

\* os.environ.get(name, default)
EnvGetDefault(name, default) == IF environ[name] = Absent THEN default ELSE environ[name]

\* json.loads(os.environ["BRUIN_VARS"]).get("taxi_types", ["yellow"])
VarsTaxiTypes(v) == IF v.has_taxi_types THEN v.taxi_types ELSE <<"yellow">>

\* a slip: the keyword arguments are probed before the environment
ResolveStartKeywordFirst ==
    Or(args.start_date, Or(KwGet("start_date"), Or(KwGet("START_DATE"),
       Or(EnvGet("START_DATE"), EnvGet("start_date")))))

\* start_date or environ START_DATE or environ start_date or kwargs start_date or kwargs START_DATE
ResolveStart ==
    Or(args.start_date, Or(EnvGet("START_DATE"), Or(EnvGet("start_date"),
       Or(KwGet("start_date"), KwGet("START_DATE")))))

\* end_date or environ END_DATE or environ end_date or kwargs end_date or kwargs END_DATE
ResolveEnd ==
    Or(args.end_date, Or(EnvGet("END_DATE"), Or(EnvGet("end_date"),
       Or(KwGet("end_date"), KwGet("END_DATE")))))

\* os.environ.get('taxi_type') or kwargs.get('taxi_type', 'yellow')
ResolveTaxiType == Or(EnvGet("taxi_type"), KwGetDefault("taxi_type", Text("yellow")))

\* os.environ.get("BRUIN_START_DATE", "2022-01-01")
Tier1Start == EnvGetDefault("BRUIN_START_DATE", DateStr(2022, 1, 1))

\* os.environ.get("BRUIN_END_DATE", "2022-01-31")
Tier1End == EnvGetDefault("BRUIN_END_DATE", DateStr(2022, 1, 31))

\* taxi_types = ["yellow"], replaced when BRUIN_VARS is set
Tier1TaxiTypes ==
    IF environ["BRUIN_VARS"] = Absent THEN <<"yellow">>
    ELSE VarsTaxiTypes(environ["BRUIN_VARS"])

\* lines 63-72 of the ingestion materialize
ResolveIngestion ==
    /\ pc = "entry"
    /\ variant = "ingestion"
    /\ run_start' = now
    /\ start_date_str' = ResolveStart
    /\ end_date_str' = ResolveEnd
    /\ taxi_types' = <<ResolveTaxiType.text>>
    /\ IF ~Truthy(ResolveStart) \/ ~Truthy(ResolveEnd)
       THEN pc' = "raised" /\ error' = "ValueError: start_date and end_date must be provided"
       ELSE pc' = "parse" /\ error' = error
    /\ UNCHANGED <<variant, args, kwargs, environ, start_date, end_date, current,
                   months, ti, mi, now, attempts, all_dataframes, df, result>>

\* lines 81-88 of the tier_1 materialize
ResolveTier1 ==
    /\ pc = "entry"
    /\ variant = "tier_1"
    /\ run_start' = now
    /\ start_date_str' = Tier1Start
    /\ end_date_str' = Tier1End
    /\ taxi_types' = Tier1TaxiTypes
    /\ pc' = "parse"
    /\ UNCHANGED <<variant, args, kwargs, environ, error, start_date, end_date,
                   current, months, ti, mi, now, attempts, all_dataframes, df, result>>

----------------------------------------------------------------------------
(* Parsing of the two dates and the month walk.                            *)

\* lines 76-85 of the ingestion materialize
ParseIngestion ==
    /\ pc = "parse"
    /\ variant = "ingestion"
    /\ IF FromIsoOk(start_date_str) /\ FromIsoOk(end_date_str)
       THEN /\ start_date' = FromIso(start_date_str)
            /\ end_date' = FromIso(end_date_str)
            /\ current' = ReplaceDay1(FromIso(start_date_str))
            /\ months' = <<>>
            /\ pc' = "walk"
            /\ error' = error
       ELSE /\ pc' = "raised"
            /\ error' = "ValueError: Invalid isoformat string"
            /\ UNCHANGED <<start_date, end_date, current, months>>
    /\ UNCHANGED <<variant, args, kwargs, environ, start_date_str, end_date_str,
                   taxi_types, ti, mi, now, run_start, attempts, all_dataframes,
                   df, result>>

\* lines 35-39 of generate_month_range
ParseTier1 ==
    /\ pc = "parse"
    /\ variant = "tier_1"
    /\ IF StrptimeOk(start_date_str) /\ StrptimeOk(end_date_str)
       THEN /\ start_date' = Strptime(start_date_str)
            /\ end_date' = Strptime(end_date_str)
            /\ current' = ReplaceDay1(Strptime(start_date_str))
            /\ months' = <<>>
            /\ pc' = "walk"
            /\ error' = error
       ELSE /\ pc' = "raised"
            /\ error' = "ValueError: time data does not match format"
            /\ UNCHANGED <<start_date, end_date, current, months>>
    /\ UNCHANGED <<variant, args, kwargs, environ, start_date_str, end_date_str,
                   taxi_types, ti, mi, now, run_start, attempts, all_dataframes,
                   df, result>>

\* one evaluation of `while current <= end_month` and, when it holds, the body
WalkIngestion ==
    /\ pc = "walk"
    /\ variant = "ingestion"
    /\ IF ~Comparable(current, ReplaceDay1(end_date))
       THEN /\ pc' = "raised"
            /\ error' = "TypeError: can't compare offset-naive and offset-aware datetimes"
            /\ UNCHANGED <<current, months, ti, mi>>
       ELSE IF IngestionLoopCond(current, end_date)
       THEN /\ months' = Append(months, <<current.year, current.month>>)
            /\ current' = AddOneMonth(current)
            /\ UNCHANGED <<pc, error, ti, mi>>
       ELSE /\ pc' = "fetch"
            /\ ti' = 1
            /\ mi' = 1
            /\ UNCHANGED <<current, months, error>>
    /\ UNCHANGED <<variant, args, kwargs, environ, start_date_str, end_date_str,
                   taxi_types, start_date, end_date, now, run_start, attempts,
                   all_dataframes, df, result>>

\* one evaluation of `while current <= end` and, when it holds, the body
WalkTier1 ==
    /\ pc = "walk"
    /\ variant = "tier_1"
    /\ IF Tier1LoopCond(current, end_date)
       THEN /\ months' = Append(months, <<current.year, current.month>>)
            /\ current' = MoveToNextMonth(current)
            /\ UNCHANGED <<pc, ti, mi>>
       ELSE /\ pc' = "fetch"
            /\ ti' = 1
            /\ mi' = 1
            /\ UNCHANGED <<current, months>>
    /\ UNCHANGED <<variant, args, kwargs, environ, error, start_date_str,
                   end_date_str, taxi_types, start_date, end_date, now, run_start,
                   attempts, all_dataframes, df, result>>

----------------------------------------------------------------------------
(* Tables (pandas DataFrame): ordered column names and ordered rows.  A    *)
(* row keeps the partition it was read from, its position in that file and *)
(* the values of the two provenance columns.                               *)

NA == "NA"

Table(cols, rows) == [cols |-> cols, rows |-> rows]

\* pd.DataFrame()
EmptyDataFrame == Table(<<>>, <<>>)

\* pd.DataFrame(columns=['taxi_type'])
EmptyWithSchema == Table(<<"taxi_type">>, <<>>)

Range(seq) == {seq[i] : i \in 1 .. Len(seq)}

\* pd.read_parquet of a file of partition (taxi, year, month) holding raw
ReadParquet(raw, taxi, year, month) ==
    Table(raw.cols,
          [k \in 1 .. raw.nrows |->
              [origin |-> <<taxi, year, month>>, k |-> k,
               taxi_type |-> NA, extracted_at |-> -1]])

\* a slip: only a table without columns counts as empty
IsEmptyNoColumns(t) == Len(t.cols) = 0

\* df.empty
IsEmpty(t) == Len(t.cols) = 0 \/ Len(t.rows) = 0

\* a slip: the entry that keeps payment_type is written the wrong way round
column_mapping_swapped ==
    ("vendor_id" :> "vendorid") @@ ("vendorID" :> "vendorid") @@
    ("VendorID" :> "vendorid") @@ ("ratecode_id" :> "ratecodeid") @@
    ("ratecodeID" :> "ratecodeid") @@ ("RatecodeID" :> "ratecodeid") @@
    ("pu_location_id" :> "pulocationid") @@ ("PULocationID" :> "pulocationid") @@
    ("do_location_id" :> "dolocationid") @@ ("DOLocationID" :> "dolocationid") @@
    ("payment_type" :> "Payment_type") @@ ("Payment_type" :> "payment_type")

\* column_mapping of the ingestion materialize
column_mapping ==
    ("vendor_id" :> "vendorid") @@ ("vendorID" :> "vendorid") @@
    ("VendorID" :> "vendorid") @@ ("ratecode_id" :> "ratecodeid") @@
    ("ratecodeID" :> "ratecodeid") @@ ("RatecodeID" :> "ratecodeid") @@
    ("pu_location_id" :> "pulocationid") @@ ("PULocationID" :> "pulocationid") @@
    ("do_location_id" :> "dolocationid") @@ ("DOLocationID" :> "dolocationid") @@
    ("payment_type" :> "payment_type") @@ ("Payment_type" :> "payment_type")

\* {k: v for k, v in column_mapping.items() if k in df.columns}
PresentMapping(cols) ==
    [k \in (DOMAIN column_mapping) \cap Range(cols) |-> column_mapping[k]]

\* a slip: only the first column is looked up in the mapping
RenameFirstOnly(t, renamer) ==
    Table([i \in 1 .. Len(t.cols) |->
              IF i = 1 /\ t.cols[i] \in DOMAIN renamer THEN renamer[t.cols[i]] ELSE t.cols[i]],
          t.rows)

\* df.rename(columns=renamer)
Rename(t, renamer) ==
    Table([i \in 1 .. Len(t.cols) |->
              IF t.cols[i] \in DOMAIN renamer THEN renamer[t.cols[i]] ELSE t.cols[i]],
          t.rows)

\* df[name] = value
SetColumn(t, name, value) ==
    Table(IF name \in Range(t.cols) THEN t.cols ELSE Append(t.cols, name),
          [i \in 1 .. Len(t.rows) |-> [t.rows[i] EXCEPT ![name] = value]])

\* lines 105-126 of the ingestion materialize: rename, then df['taxi_type'] = taxi_type
NormalizeIngestion(t, taxi) ==
    SetColumn(Rename(t, PresentMapping(t.cols)), "taxi_type", taxi)

\* lines 108-111 of the tier_1 materialize: taxi_type and extracted_at
TagTier1(t, taxi, at) ==
    SetColumn(SetColumn(t, "taxi_type", taxi), "extracted_at", at)

RECURSIVE UnionColumns(_)
\* the column index of pd.concat: every column, in order of first appearance
UnionColumns(frames) ==
    IF frames = <<>> THEN <<>>
    ELSE LET head == UnionColumns(SubSeq(frames, 1, Len(frames) - 1))
             last == frames[Len(frames)].cols
         IN  head \o SelectSeq(last, LAMBDA c : c \notin Range(head))

RECURSIVE ConcatRows(_)
ConcatRows(frames) ==
    IF frames = <<>> THEN <<>>
    ELSE ConcatRows(SubSeq(frames, 1, Len(frames) - 1)) \o frames[Len(frames)].rows

\* a slip: only the last table collected is returned
ConcatLastOnly(frames) == IF frames = <<>> THEN EmptyDataFrame ELSE frames[Len(frames)]

\* pd.concat(frames, ignore_index=True)
Concat(frames) == Table(UnionColumns(frames), ConcatRows(frames))

----------------------------------------------------------------------------
(* The fetch loops and the combiner.                                       *)

RawColumnMenu == {<<"VendorID", "fare_amount">>, <<"vendor_id", "PULocationID">>}

\* what a remote parquet file may hold
RawMenu == [cols : RawColumnMenu, nrows : 0 .. MaxRows]

NoRaw == [cols |-> <<>>, nrows |-> 0]

Attempt(taxi, ym, outcome, raw) ==
    [taxi_type |-> taxi, year |-> ym[1], month |-> ym[2], outcome |-> outcome, raw |-> raw]

\* a slip: the loop stops one month early
IngestionLoopStopsEarly == mi < Len(months)

\* for year, month in months: the loop of the ingestion materialize is not over
IngestionLoopBusy == mi <= Len(months)

\* for taxi_type in taxi_types: for year, month in months: not over
Tier1LoopBusy == ti <= Len(taxi_types) /\ Len(months) > 0

\* lines 97-129: the try block runs to its end
FetchIngestionOk ==
    /\ pc = "fetch"
    /\ variant = "ingestion"
    /\ IngestionLoopBusy
    /\ \E raw \in RawMenu :
          LET taxi == taxi_types[1]
              ym == months[mi]
              table == NormalizeIngestion(ReadParquet(raw, taxi, ym[1], ym[2]), taxi)
          IN  /\ df' = table
              /\ all_dataframes' = Append(all_dataframes, table)
              /\ attempts' = Append(attempts, Attempt(taxi, ym, "ok", raw))
    /\ mi' = mi + 1
    /\ now' = now + 1
    /\ UNCHANGED <<variant, args, kwargs, environ, pc, error, start_date_str,
                   end_date_str, taxi_types, start_date, end_date, current, months,
                   ti, run_start, result>>

\* lines 131-136: requests.get, raise_for_status or read_parquet raised; continue
FetchIngestionFail ==
    /\ pc = "fetch"
    /\ variant = "ingestion"
    /\ IngestionLoopBusy
    /\ \E exc \in {"RequestException", "Exception"} :
          attempts' = Append(attempts, Attempt(taxi_types[1], months[mi], exc, NoRaw))
    /\ mi' = mi + 1
    /\ now' = now + 1
    /\ UNCHANGED <<variant, args, kwargs, environ, pc, error, start_date_str,
                   end_date_str, taxi_types, start_date, end_date, current, months,
                   ti, run_start, all_dataframes, df, result>>

\* lines 138-146
CombineIngestion ==
    /\ pc = "fetch"
    /\ variant = "ingestion"
    /\ ~IngestionLoopBusy
    /\ result' = IF all_dataframes = <<>> THEN EmptyWithSchema ELSE Concat(all_dataframes)
    /\ pc' = "done"
    /\ UNCHANGED <<variant, args, kwargs, environ, error, start_date_str,
                   end_date_str, taxi_types, start_date, end_date, current, months,
                   ti, mi, now, run_start, attempts, all_dataframes, df>>

\* the step of the nested for loops of the tier_1 materialize
Tier1Advance ==
    IF mi = Len(months) THEN ti' = ti + 1 /\ mi' = 1
    ELSE ti' = ti /\ mi' = mi + 1

\* lines 101-114 with download_parquet_file returning the parsed file
FetchTier1Ok ==
    /\ pc = "fetch"
    /\ variant = "tier_1"
    /\ Tier1LoopBusy
    /\ \E raw \in RawMenu :
          LET taxi == taxi_types[ti]
              ym == months[mi]
              read == ReadParquet(raw, taxi, ym[1], ym[2])
          IN  /\ attempts' = Append(attempts, Attempt(taxi, ym, "ok", raw))
              /\ IF ~IsEmpty(read)
                 THEN /\ df' = TagTier1(read, taxi, now + 1)
                      /\ all_dataframes' = Append(all_dataframes, TagTier1(read, taxi, now + 1))
                 ELSE UNCHANGED <<df, all_dataframes>>
    /\ Tier1Advance
    /\ now' = now + 1
    /\ UNCHANGED <<variant, args, kwargs, environ, pc, error, start_date_str,
                   end_date_str, taxi_types, start_date, end_date, current, months,
                   run_start, result>>

\* lines 101-114 with download_parquet_file returning pd.DataFrame() on an exception
FetchTier1Fail ==
    /\ pc = "fetch"
    /\ variant = "tier_1"
    /\ Tier1LoopBusy
    /\ attempts' = Append(attempts, Attempt(taxi_types[ti], months[mi], "Exception", NoRaw))
    /\ Tier1Advance
    /\ now' = now + 1
    /\ UNCHANGED <<variant, args, kwargs, environ, pc, error, start_date_str,
                   end_date_str, taxi_types, start_date, end_date, current, months,
                   run_start, all_dataframes, df, result>>

\* lines 117-123
CombineTier1 ==
    /\ pc = "fetch"
    /\ variant = "tier_1"
    /\ ~Tier1LoopBusy
    /\ result' = IF all_dataframes # <<>> THEN Concat(all_dataframes) ELSE EmptyDataFrame
    /\ pc' = "done"
    /\ UNCHANGED <<variant, args, kwargs, environ, error, start_date_str,
                   end_date_str, taxi_types, start_date, end_date, current, months,
                   ti, mi, now, run_start, attempts, all_dataframes, df>>

----------------------------------------------------------------------------
(* Initial states.                                                         *)

NoEnviron == [n \in EnvNames |-> Absent]
NoKwargs == [n \in KwNames |-> Absent]
NoArgs == [start_date |-> None, end_date |-> None]

\* everything but the inputs, as it is when materialize is entered
Entered ==
    /\ pc = "entry"
    /\ error = ""
    /\ start_date_str = None
    /\ end_date_str = None
    /\ taxi_types = <<>>
    /\ start_date = NoDate
    /\ end_date = NoDate
    /\ current = NoDate
    /\ months = <<>>
    /\ ti = 0
    /\ mi = 0
    /\ now = 1
    /\ run_start = 0
    /\ attempts = <<>>
    /\ all_dataframes = <<>>
    /\ df = EmptyDataFrame
    /\ result = EmptyDataFrame

\* date strings a caller may pass to the month enumeration
DateInputs ==
    {DateStr(y, m, d) : y \in Years, m \in MonthMenu, d \in DayMenu}
    \cup UNION {{DateTimeStr(y, m, d, t), DateTimeZStr(y, m, d, t)} :
                   y \in Years, m \in MonthMenu, d \in DayMenu, t \in 0 .. MaxTod}

\* the month enumeration over every pair of date strings
InitEnum ==
    /\ Entered
    /\ variant \in {"tier_1", "ingestion"}
    /\ kwargs = NoKwargs
    /\ \E s \in DateInputs, e \in DateInputs :
          IF variant = "ingestion"
          THEN /\ args = [start_date |-> s, end_date |-> e]
               /\ environ = NoEnviron
          ELSE /\ args = NoArgs
               /\ environ = [NoEnviron EXCEPT !["BRUIN_START_DATE"] = s,
                                             !["BRUIN_END_DATE"] = e]

NextEnum ==
    \/ ResolveIngestion
    \/ ResolveTier1
    \/ ParseIngestion
    \/ ParseTier1
    \/ WalkIngestion
    \/ WalkTier1

SpecEnum == InitEnum /\ [][NextEnum]_vars

\* the inputs of whole runs: each source offers its own date, or nothing
InitIngestion ==
    /\ variant = "ingestion"
    /\ args \in [start_date : {None, Empty, DateStr(2021, 11, 15), DateJunkStr(2021, 11, 20)},
                  end_date : {None, DateStr(2021, 12, 10), Malformed}]
    /\ \E es \in {Absent, DateStr(2021, 12, 1)},
          ee \in {Absent, DateStr(2022, 1, 31)},
          ls \in {Absent, DateTimeStr(2021, 12, 20, 1)},
          le \in {Absent, Empty, DateTimeStr(2021, 12, 25, 0)},
          tt \in {Absent, Text("green")} :
          environ = [NoEnviron EXCEPT !["START_DATE"] = es, !["END_DATE"] = ee,
                                      !["start_date"] = ls, !["end_date"] = le,
                                      !["taxi_type"] = tt]
    \* a keyword named start_date or end_date binds to the parameter, never to **kwargs
    /\ \E ks \in {Absent, DateStr(2022, 1, 5)},
          ke \in {Absent, DateStr(2021, 11, 30)},
          kt \in {Absent, Text("fhv")} :
          kwargs = [NoKwargs EXCEPT !["START_DATE"] = ks, !["END_DATE"] = ke,
                                    !["taxi_type"] = kt]

BruinVars(has, types) == [form |-> "json", has_taxi_types |-> has, taxi_types |-> types]

InitTier1 ==
    /\ variant = "tier_1"
    /\ args = NoArgs
    /\ kwargs = NoKwargs
    /\ \E bs \in {Absent, Empty, DateStr(2021, 12, 15), DateStr(2022, 1, 20),
                  DateJunkStr(2021, 12, 5)},
          be \in {Absent, DateStr(2022, 1, 10), DateStr(2021, 12, 31), Malformed},
          bv \in {Absent, BruinVars(FALSE, <<>>), BruinVars(TRUE, <<"green", "yellow">>),
                  BruinVars(TRUE, <<>>)} :
          environ = [NoEnviron EXCEPT !["BRUIN_START_DATE"] = bs,
                                      !["BRUIN_END_DATE"] = be,
                                      !["BRUIN_VARS"] = bv]

Init == Entered /\ (InitIngestion \/ InitTier1)

Next ==
    \/ ResolveIngestion
    \/ ResolveTier1
    \/ ParseIngestion
    \/ ParseTier1
    \/ WalkIngestion
    \/ WalkTier1
    \/ FetchIngestionOk
    \/ FetchIngestionFail
    \/ CombineIngestion
    \/ FetchTier1Ok
    \/ FetchTier1Fail
    \/ CombineTier1

Spec == Init /\ [][Next]_vars

\* runs whose dates come from one source: the parameters of the ingestion
\* materialize, the BRUIN_ variables of tier_1
InitPipeline ==
    /\ Entered
    /\ variant \in {"tier_1", "ingestion"}
    /\ kwargs = NoKwargs
    /\ \E s \in {None, DateStr(2021, 11, 15), DateTimeStr(2021, 12, 20, 1)},
          e \in {DateStr(2021, 11, 1), DateStr(2021, 12, 10), DateStr(2022, 1, 31)},
          bv \in {Absent, BruinVars(TRUE, <<"green", "yellow">>)} :
          IF variant = "ingestion"
          THEN /\ args = [start_date |-> s, end_date |-> e]
               /\ environ = NoEnviron
          ELSE /\ args = NoArgs
               /\ environ = [NoEnviron EXCEPT
                                !["BRUIN_START_DATE"] = IF s = None THEN Absent ELSE s,
                                !["BRUIN_END_DATE"] = e,
                                !["BRUIN_VARS"] = bv]

\* materialize is straight-line sequential code on one thread: a step that can
\* be taken is taken
FairSpec == InitPipeline /\ [][Next]_vars /\ WF_vars(Next)

----------------------------------------------------------------------------
(* Normalization alone, over every raw column list of bounded length.      *)

\* the listed spellings, their canonical names, and two names the mapping ignores
ColumnUniverse ==
    (DOMAIN column_mapping) \cup {column_mapping[k] : k \in DOMAIN column_mapping}
    \cup {"fare_amount", "taxi_type"}

\* column lists without a repeated name
RawColumnLists ==
    {cols \in UNION {[1 .. n -> ColumnUniverse] : n \in 0 .. MaxCols} :
        \A i, j \in 1 .. Len(cols) : cols[i] = cols[j] => i = j}

\* a file has been read; the rename and the tagging are still to run
InitNorm ==
    /\ variant = "ingestion"
    /\ args = NoArgs
    /\ kwargs = NoKwargs
    /\ environ = NoEnviron
    /\ pc = "normalize"
    /\ error = ""
    /\ start_date_str = None
    /\ end_date_str = None
    /\ taxi_types \in {<<"yellow">>, <<"green">>}
    /\ start_date = NoDate
    /\ end_date = NoDate
    /\ current = NoDate
    /\ months = <<<<2022, 1>>>>
    /\ ti = 1
    /\ mi = 1
    /\ now = 1
    /\ run_start = 1
    /\ \E cols \in RawColumnLists, n \in 0 .. MaxRows :
          /\ attempts = <<Attempt(taxi_types[1], months[1], "ok", [cols |-> cols, nrows |-> n])>>
          /\ df = ReadParquet([cols |-> cols, nrows |-> n], taxi_types[1], 2022, 1)
    /\ all_dataframes = <<>>
    /\ result = EmptyDataFrame

\* lines 105-126 applied to df, then once more to what they produced
NormalizeStep ==
    /\ pc = "normalize"
    /\ df' = NormalizeIngestion(df, taxi_types[1])
    /\ all_dataframes' = Append(all_dataframes, df')
    /\ pc' = IF Len(all_dataframes) = 1 THEN "normalized" ELSE pc
    /\ UNCHANGED <<variant, args, kwargs, environ, error, start_date_str,
                   end_date_str, taxi_types, start_date, end_date, current, months,
                   ti, mi, now, run_start, attempts, result>>

NextNorm == NormalizeStep

SpecNorm == InitNorm /\ [][NextNorm]_vars

----------------------------------------------------------------------------
(* Properties of the month enumeration (checked under SpecEnum).           *)

\* the walk has ended and months is the list handed to the fetch loop
EnumerationDone == pc \in {"fetch", "done"}

\* both resolved inputs are plain YYYY-MM-DD dates
DateOnlyInputs == start_date_str.form = "date" /\ end_date_str.form = "date"

\* start <= end on the two input dates
StartNotAfterEnd == DateOnlyInputs /\ DateTimeLeq(start_date_str, end_date_str)

\* start > end on the two input dates
StartAfterEnd == DateOnlyInputs /\ ~DateTimeLeq(start_date_str, end_date_str)

\* the calendar month after (year, month)
CalendarSuccessor(ym) == IF ym[2] = 12 THEN <<ym[1] + 1, 1>> ELSE <<ym[1], ym[2] + 1>>

MonthOf(dt) == <<dt.year, dt.month>>

MonthIndex(ym) == ym[1] * 12 + ym[2]

SameMonth(a, b) == MonthOf(a) = MonthOf(b)

\* C1: for dates start <= end, both enumerations return the months from the
\* month of start to the month of end, each the calendar successor of the one
\* before (so strictly increasing, without duplicate or gap), and exactly one
\* month when start and end lie in the same month.
C1_MonthsContiguous ==
    (EnumerationDone /\ StartNotAfterEnd) =>
        /\ Len(months) >= 1
        /\ months[1] = MonthOf(start_date)
        /\ months[Len(months)] = MonthOf(end_date)
        /\ \A i \in 1 .. Len(months) - 1 :
              /\ months[i + 1] = CalendarSuccessor(months[i])
              /\ MonthIndex(months[i]) < MonthIndex(months[i + 1])
        /\ \A i, j \in 1 .. Len(months) : months[i] = months[j] => i = j
        /\ SameMonth(start_date, end_date) => Len(months) = 1

\* a walk over a December -> January rollover that ended in a later month
C1_Witness ==
    /\ EnumerationDone /\ StartNotAfterEnd
    /\ \E i \in 1 .. Len(months) - 2 : months[i][2] = 12 /\ months[i + 1][2] = 1

\* C2 as stated: for dates start > end, also within one calendar month, the
\* enumeration does not raise and returns the empty sequence.
C2_EmptyWheneverReversed ==
    StartAfterEnd =>
        /\ pc # "raised"
        /\ EnumerationDone => months = <<>>

\* C2 amended: for dates start > end the enumeration does not raise; it is
\* empty when the month of start is after the month of end, and is the one
\* shared month when start and end lie in the same calendar month.
C2_EmptyWhenMonthReversed ==
    StartAfterEnd =>
        /\ pc # "raised"
        /\ EnumerationDone =>
              months = IF SameMonth(start_date, end_date)
                       THEN <<MonthOf(start_date)>> ELSE <<>>

\* an enumeration that ended empty for a start in a later month than end
C2_Witness ==
    /\ EnumerationDone /\ StartAfterEnd
    /\ ~SameMonth(start_date, end_date)
    /\ months = <<>>

\* the date part of a parsed datetime
TruncateToDate(dt) == [dt EXCEPT !.tod = 0, !.aware = FALSE]

\* C7: in the ingestion materialize the time-of-day is truncated: the months
\* enumerated from two ISO values equal the months enumerated from their two
\* calendar dates alone.
C7_TimeOfDayTruncated ==
    (variant = "ingestion" /\ EnumerationDone) =>
        months = IngestionMonthsFrom(ReplaceDay1(TruncateToDate(start_date)),
                                     TruncateToDate(end_date))

----------------------------------------------------------------------------
(* Properties of whole runs (checked under Spec).                          *)

RECURSIVE RowsFetched(_)
\* the rows of the files that were retrieved and parsed, in attempt order
RowsFetched(log) ==
    IF log = <<>> THEN <<>>
    ELSE LET a == log[Len(log)]
         IN  RowsFetched(SubSeq(log, 1, Len(log) - 1)) \o
             (IF a.outcome = "ok"
              THEN [k \in 1 .. a.raw.nrows |-> <<<<a.taxi_type, a.year, a.month>>, k>>]
              ELSE <<>>)

RowIds(t) == [i \in 1 .. Len(t.rows) |-> <<t.rows[i].origin, t.rows[i].k>>]

SomeAttemptOk == \E i \in 1 .. Len(attempts) : attempts[i].outcome = "ok"

C4_EmptyResultKeepsSchema ==
    /\ (EnumerationDone /\ ~SomeAttemptOk) => pc # "raised"
    /\ (pc = "done" /\ ~SomeAttemptOk) =>
          (Len(result.rows) = 0 /\ "taxi_type" \in Range(result.cols))

\* C5: every table handed to the combiner, and every row of the combined
\* table, carries the category of its fetch and an ingestion timestamp no
\* earlier than the start of the run.
C5_ProvenanceColumns ==
    /\ \A n \in 1 .. Len(all_dataframes) :
          LET t == all_dataframes[n]
          IN  /\ "taxi_type" \in Range(t.cols)
              /\ "extracted_at" \in Range(t.cols)
              /\ \A i \in 1 .. Len(t.rows) :
                    /\ t.rows[i].taxi_type = t.rows[i].origin[1]
                    /\ t.rows[i].extracted_at >= run_start
    /\ pc = "done" =>
          \A i \in 1 .. Len(result.rows) :
              /\ result.rows[i].taxi_type = result.rows[i].origin[1]
              /\ result.rows[i].extracted_at >= run_start

\* the sources the entry point probes for the start and for the end date
StartSources ==
    IF variant = "ingestion"
    THEN <<args.start_date, environ["START_DATE"], environ["start_date"],
           kwargs["start_date"], kwargs["START_DATE"]>>
    ELSE <<environ["BRUIN_START_DATE"]>>

EndSources ==
    IF variant = "ingestion"
    THEN <<args.end_date, environ["END_DATE"], environ["end_date"],
           kwargs["end_date"], kwargs["END_DATE"]>>
    ELSE <<environ["BRUIN_END_DATE"]>>

Resolvable(sources) == \E i \in 1 .. Len(sources) : Truthy(sources[i])

\* a source supplies a date: a non-empty value in the ingestion materialize,
\* which skips empty strings; a set variable in tier_1, which parses whatever
\* the variable holds
Supplied(sources) ==
    IF variant = "ingestion" THEN Resolvable(sources)
    ELSE \E i \in 1 .. Len(sources) : sources[i] # Absent

MissingInput == "ValueError: start_date and end_date must be provided"

\* C6: the entry point fails with MissingInput, before any month is
\* enumerated or fetched, exactly when the start or the end date is supplied
\* by none of its sources; it never runs on a default date range.
C6_MissingInputIffUnresolvable ==
    pc # "entry" =>
        /\ (pc = "raised" /\ error = MissingInput)
              <=> ~(Supplied(StartSources) /\ Supplied(EndSources))
        /\ (pc = "raised" /\ error = MissingInput) => (months = <<>> /\ attempts = <<>>)

\* the first truthy value of a list of sources, None when there is none
FirstTruthy(sources) ==
    IF Resolvable(sources)
    THEN sources[CHOOSE i \in 1 .. Len(sources) :
                    Truthy(sources[i]) /\ \A j \in 1 .. i - 1 : ~Truthy(sources[j])]
    ELSE None

\* v is the value the list of sources supplies (no value when none is truthy)
Supplies(sources, v) ==
    IF Resolvable(sources) THEN v = FirstTruthy(sources) ELSE ~Truthy(v)

\* C10 as stated: explicit argument > keyword argument > environment variable,
\* for the start date, the end date and the category.
C10_ArgumentKeywordEnvironment ==
    (variant = "ingestion" /\ pc \notin {"entry", "raised"}) =>
        /\ Supplies(<<args.start_date, kwargs["start_date"], kwargs["START_DATE"],
                      environ["START_DATE"], environ["start_date"]>>, start_date_str)
        /\ Supplies(<<args.end_date, kwargs["end_date"], kwargs["END_DATE"],
                      environ["END_DATE"], environ["end_date"]>>, end_date_str)
        /\ taxi_types = <<FirstTruthy(<<kwargs["taxi_type"], environ["taxi_type"],
                                        Text("yellow")>>).text>>

\* C10 amended: explicit argument > environment variable > keyword argument
\* for the two dates; environment variable > keyword argument > "yellow" for
\* the category, which has no explicit argument.
C10_ArgumentEnvironmentKeyword ==
    (variant = "ingestion" /\ pc # "entry") =>
        /\ Supplies(<<args.start_date, environ["START_DATE"], environ["start_date"],
                      kwargs["start_date"], kwargs["START_DATE"]>>, start_date_str)
        /\ Supplies(<<args.end_date, environ["END_DATE"], environ["end_date"],
                      kwargs["end_date"], kwargs["END_DATE"]>>, end_date_str)
        /\ taxi_types = <<FirstTruthy(<<environ["taxi_type"], kwargs["taxi_type"],
                                        Text("yellow")>>).text>>

\* a run that took its start date from the environment although a keyword
\* argument supplied one too
C10_Witness ==
    /\ variant = "ingestion" /\ pc = "done"
    /\ ~Truthy(args.start_date)
    /\ Truthy(environ["START_DATE"]) /\ Truthy(kwargs["START_DATE"])
    /\ start_date_str = environ["START_DATE"]
    /\ Truthy(environ["taxi_type"]) /\ Truthy(kwargs["taxi_type"])
    /\ taxi_types = <<environ["taxi_type"].text>>

----------------------------------------------------------------------------
(* Properties of the normalization (checked under SpecNorm).               *)

\* the column names of the file that was read
RawCols == attempts[1].raw.cols

\* an alternate spelling: a key of the mapping that is not its own target
IsAlternate(c) == c \in DOMAIN column_mapping /\ column_mapping[c] # c

\* C8: normalization is idempotent: normalizing a normalized table changes
\* nothing.
C8_NormalizeIdempotent ==
    Len(all_dataframes) = 2 => all_dataframes[2] = all_dataframes[1]

\* a file with an alternate spelling, normalized twice
C8_Witness ==
    /\ pc = "normalized" /\ Len(all_dataframes) = 2
    /\ "VendorID" \in Range(RawCols)
    /\ "payment_type" \in Range(RawCols)
    /\ "vendorid" \in Range(all_dataframes[2].cols)

\* C9: normalization renames every alternate spelling that is present to its
\* canonical name, so that the spelling is gone, leaves every column the
\* mapping does not list as it was, and creates no canonical column that no
\* column of the file maps to.
C9_RenameOnlyPresent ==
    Len(all_dataframes) >= 1 =>
        LET out == all_dataframes[1].cols
        IN  /\ Len(out) >= Len(RawCols)
            /\ \A i \in 1 .. Len(RawCols) :
                  /\ IsAlternate(RawCols[i]) =>
                        (out[i] = column_mapping[RawCols[i]] /\ RawCols[i] \notin Range(out))
                  /\ RawCols[i] \notin DOMAIN column_mapping => out[i] = RawCols[i]
            /\ \A c \in {column_mapping[k] : k \in DOMAIN column_mapping} :
                  c \in Range(out) =>
                      (c \in Range(RawCols) \/
                       \E k \in Range(RawCols) \cap DOMAIN column_mapping : column_mapping[k] = c)

\* a file with VendorID second and a column the mapping does not list
C9_Witness ==
    /\ Len(all_dataframes) >= 1
    /\ RawCols = <<"fare_amount", "VendorID">>
    /\ all_dataframes[1].cols = <<"fare_amount", "vendorid", "taxi_type">>

----------------------------------------------------------------------------
(* The run as a pipeline (checked under FairSpec).                         *)

\* the partitions in the order of the fetch loops: taxi types outermost
PartitionAt(n) ==
    <<taxi_types[((n - 1) \div Len(months)) + 1],
      months[((n - 1) % Len(months)) + 1][1],
      months[((n - 1) % Len(months)) + 1][2]>>

PartitionsInOrder == [n \in 1 .. Len(taxi_types) * Len(months) |-> PartitionAt(n)]

AttemptKeys ==
    [i \in 1 .. Len(attempts) |->
        <<attempts[i].taxi_type, attempts[i].year, attempts[i].month>>]

PcRank(p) ==
    CASE p = "entry" -> 0
      [] p = "parse" -> 1
      [] p = "walk" -> 2
      [] p = "fetch" -> 3
      [] OTHER -> 4

\* the attempts made so far are the first partitions, one attempt each; the
\* combiner has run only when every partition has had its attempt
OneAttemptEach ==
    /\ pc = "fetch" =>
          /\ Len(attempts) <= Len(PartitionsInOrder)
          /\ AttemptKeys = SubSeq(PartitionsInOrder, 1, Len(attempts))
    /\ pc = "done" => AttemptKeys = PartitionsInOrder
    /\ pc \in {"entry", "parse", "walk", "raised"} => attempts = <<>>

\* C11: once the dates are parsed the run is a linear pipeline that ends: the
\* position never moves back, the month walk ends, every enumerated partition
\* gets exactly one fetch attempt in enumeration order, the combiner runs only
\* after the last attempt, and the run reaches the end of the combine step
\* whichever fetches fail.
C11_LinearPipelineTerminates ==
    /\ []OneAttemptEach
    /\ [][PcRank(pc') >= PcRank(pc) /\ (pc' = pc => Len(months') + Len(attempts') > Len(months) + Len(attempts))]_vars
    /\ (pc = "walk") ~> (pc = "done")

\* a finished run of three partitions, each attempted once, one of them failed
C11_Witness ==
    /\ pc = "done"
    /\ Len(months) = 3
    /\ AttemptKeys = PartitionsInOrder
    /\ \E i \in 1 .. Len(attempts) : attempts[i].outcome # "ok"

----------------------------------------------------------------------------
(* What is fatal to a run (checked under Spec).                            *)

\* a resolved value that is no ISO 8601 date or date-time
IsMalformed(v) == v.form \in {"empty", "malformed", "date_junk"}

\* C12: a malformed start or end date makes the run raise at once, before any
\* retrieval and with no table returned, and nothing a partition's retrieval
\* or parse does is ever raised out of materialize.
C12_OnlyInputFailuresFatal ==
    /\ (pc \notin {"entry", "parse"} /\
          (IsMalformed(start_date_str) \/ IsMalformed(end_date_str))) =>
            (pc = "raised" /\ months = <<>> /\ attempts = <<>> /\ result = EmptyDataFrame)
    /\ pc = "raised" => (mi = 0 /\ attempts = <<>>)

----------------------------------------------------------------------------
(* The two month enumerations against each other (checked under SpecEnum). *)

\* C13: on date-only inputs, start > end included, the walk of either
\* variant ends with the list generate_month_range returns and with the list
\* the loop of the ingestion materialize builds.
C13_EnumerationsAgree ==
    (EnumerationDone /\ DateOnlyInputs) =>
        /\ months = generate_month_range(start_date_str, end_date_str)
        /\ months = IngestionMonthsFrom(ReplaceDay1(FromIso(start_date_str)),
                                        FromIso(end_date_str))

\* a tier_1 walk over a year end whose end date is not a first of the month
C13_Witness ==
    /\ EnumerationDone /\ DateOnlyInputs
    /\ variant = "tier_1"
    /\ end_date.day # 1
    /\ \E i \in 1 .. Len(months) - 1 : months[i][2] = 12
    /\ months = IngestionMonthsFrom(ReplaceDay1(FromIso(start_date_str)),
                                    FromIso(end_date_str))

----------------------------------------------------------------------------
(* Which partitions tier_1 keeps (checked under Spec).                     *)

\* the attempt returned a table with at least one row and one column
ReturnedNonEmpty(a) == a.outcome = "ok" /\ a.raw.nrows > 0 /\ Len(a.raw.cols) > 0

KeptAttempts == SelectSeq(attempts, ReturnedNonEmpty)

\* C14: in tier_1 no download raises out of materialize, a partition is kept
\* for the combiner exactly when the table returned for it is non-empty, and
\* a file that parses to zero rows is dropped like a failed one: it gives the
\* result neither rows nor columns.
C14_Tier1KeepsNonEmptyOnly ==
    variant = "tier_1" =>
        /\ pc = "raised" => attempts = <<>>
        /\ Len(all_dataframes) = Len(KeptAttempts)
        /\ \A n \in 1 .. Len(all_dataframes) :
              /\ Len(all_dataframes[n].rows) = KeptAttempts[n].raw.nrows
              /\ all_dataframes[n].rows[1].origin =
                    <<KeptAttempts[n].taxi_type, KeptAttempts[n].year, KeptAttempts[n].month>>
        /\ pc = "done" =>
              Range(result.cols) =
                  UNION {Range(KeptAttempts[n].raw.cols) \cup {"taxi_type", "extracted_at"} :
                            n \in 1 .. Len(KeptAttempts)}

\* a finished tier_1 run in which a file with no rows was parsed and skipped
\* and another file gave the result its rows and columns
C14_Witness ==
    /\ variant = "tier_1" /\ pc = "done"
    /\ \E i, j \in 1 .. Len(attempts) :
          /\ attempts[i].outcome = "ok" /\ attempts[i].raw.nrows = 0
          /\ "VendorID" \in Range(attempts[i].raw.cols)
          /\ attempts[j].outcome = "ok" /\ attempts[j].raw.nrows > 0
    /\ Len(result.rows) > 0
    /\ "VendorID" \notin Range(result.cols)

----------------------------------------------------------------------------
(* Column names after normalization (checked under SpecNorm).              *)

PairwiseDistinct(cols) == \A i, j \in 1 .. Len(cols) : cols[i] = cols[j] => i = j

\* C15: a file whose column names are pairwise distinct still has pairwise
\* distinct column names after the rename and the added taxi_type column.
C15_DistinctColumnsPreserved ==
    (Len(all_dataframes) >= 1 /\ PairwiseDistinct(RawCols)) =>
        PairwiseDistinct(all_dataframes[1].cols)

====
